---- MODULE Spec2Model ----
(***************************************************************************)
(* Request tracing middleware of actix-web-opentelemetry                   *)
(* (src/src/middleware/trace.rs).                                          *)
(*                                                                         *)
(* One actix worker thread is modelled.  The middleware's futures are not  *)
(* Send (Pin<Box<dyn Future>>, Rc), so every call() and every poll of a    *)
(* request's future runs to completion on that thread; requests interleave *)
(* only between a call()/poll() and the next one.  The thread-local        *)
(* "current" OpenTelemetry context is the variable current.                *)
(*                                                                         *)
(* Conventions: Option<T> is a sequence of length at most one (None is the *)
(* empty sequence, Some(x) is <<x>>).  A string that the code takes apart  *)
(* is a sequence of tokens: a route is a sequence of path tokens, a host   *)
(* or socket address is the sequence of its ':'-separated pieces.          *)
(***************************************************************************)
EXTENDS Integers, Sequences, FiniteSets, TLC

\* Number of request slots of the worker that can be in flight together.
NumRequests == 2

Slots == 1..NumRequests

None == <<>>

Some(x) == <<x>>

(***************************************************************************)
(* Inputs: headers, requests, handler outcomes.                            *)
(***************************************************************************)

\* A header value: text is whether HeaderValue::to_str succeeds.
TextValue(v) == [text |-> TRUE, val |-> v]

OpaqueValue(v) == [text |-> FALSE, val |-> v]

\* traceparent values as <<version, trace id, parent span id, flags>>.
TraceparentT1 == TextValue(<<0, 1, 7, 1>>)

TraceparentT2 == TextValue(<<0, 2, 9, 1>>)

\* An all-zero trace id, a truncated value and a value that is not text.
TraceparentZero == TextValue(<<0, 0, 7, 1>>)

TraceparentShort == TextValue(<<0, 1>>)

TraceparentOpaque == OpaqueValue(<<0, 1, 7, 1>>)

TraceparentValues ==
    {TraceparentT1, TraceparentT2, TraceparentZero, TraceparentShort, TraceparentOpaque}

UserAgentValues == {TextValue("curl/7.68"), OpaqueValue("bytes")}

\* Header maps: a function from the (lower-case) names present to their values.
Headers(tp, ua) ==
    [n \in ((IF tp = None THEN {} ELSE {"traceparent"})
             \cup (IF ua = None THEN {} ELSE {"user-agent"}))
        |-> IF n = "traceparent" THEN tp[1] ELSE ua[1]]

HeaderMaps ==
    {Headers(tp, ua) :
        tp \in {None} \cup {Some(v) : v \in TraceparentValues},
        ua \in {None} \cup {Some(v) : v \in UserAgentValues}}

\* Route patterns, as token sequences.
PatternUsers == <<"/", "Users", "/", "{id}">>

PatternRoot == <<"/">>

Patterns == {PatternUsers, PatternRoot}

\* Hosts, as ':'-separated pieces: "example.com", "example.com:8080",
\* "example.com:abc", "example.com:", "[::1]:8080", "[2001:1234::1]:8080"
\* and "example.com:8080:9090".
Hosts ==
    {<<"example.com">>, <<"example.com", "8080">>, <<"example.com", "abc">>,
     <<"example.com", "">>, <<"[", "", "1]", "8080">>,
     <<"[2001", "1234", "", "1]", "8080">>, <<"example.com", "8080", "9090">>}

ServerNames == {<<"example.com">>, <<"localhost", "8080">>}

\* Peer socket addresses and resolved client addresses.
Peers == {[ip |-> "10.0.0.1", port |-> "5555"], [ip |-> "10.0.0.2", port |-> "6666"]}

RealIps == {<<"10.0.0.1", "5555">>, <<"10.0.0.1">>, <<"203.0.113.9">>}

DefaultRequest ==
    [headers |-> Headers(None, None),
     match_pattern |-> Some(PatternUsers),
     method |-> "GET",
     version |-> <<"HTTP/", "1.1">>,
     host |-> <<"example.com", "8080">>,
     scheme |-> "http",
     server_name |-> <<"example.com", "8080">>,
     target |-> Some("/Users/42?x=1"),
     peer_addr |-> Some([ip |-> "10.0.0.1", port |-> "5555"]),
     realip |-> Some(<<"10.0.0.1", "5555">>)]

\* Every group of request fields that the code reads together is varied over
\* all of its combinations, the other groups staying at their defaults.
AllRequests ==
    {[DefaultRequest EXCEPT !.headers = h] : h \in HeaderMaps}
    \cup {[DefaultRequest EXCEPT !.match_pattern = p] :
            p \in {None} \cup {Some(x) : x \in Patterns}}
    \cup {[DefaultRequest EXCEPT !.host = h, !.server_name = s] :
            h \in Hosts, s \in ServerNames}
    \cup {[DefaultRequest EXCEPT !.method = m, !.version = v, !.scheme = s, !.target = t] :
            m \in {"GET", "POST"}, v \in {<<"HTTP/", "1.1">>, <<"HTTP/", "2.0">>},
            s \in {"http", "https"}, t \in {None, Some("/Users/42?x=1")}}
    \cup {[DefaultRequest EXCEPT !.peer_addr = p, !.realip = q] :
            p \in {None} \cup {Some(x) : x \in Peers},
            q \in {None} \cup {Some(x) : x \in RealIps}}

\* The requests used where several are in flight together.
SampleRequests ==
    {DefaultRequest,
     [DefaultRequest EXCEPT !.headers = Headers(Some(TraceparentOpaque), None)],
     [DefaultRequest EXCEPT !.headers = Headers(Some(TraceparentT1), None)],
     [DefaultRequest EXCEPT !.headers = Headers(Some(TraceparentT2), None)],
     [DefaultRequest EXCEPT !.headers = Headers(Some(TraceparentZero), None),
                            !.match_pattern = None]}

OneRequest == {DefaultRequest}

\* Failures of the inner handler, with their two renderings: Display ("{}")
\* and Debug ("{:?}").  The first is an error made from the text "db timeout"
\* (Debug of a &str quotes it), the second a unit-like error type whose
\* Display impl writes "db timeout", the third renders alike both ways.
Errors ==
    {[display |-> "db timeout", debug |-> "\"db timeout\""],
     [display |-> "db timeout", debug |-> "DbTimeout"],
     [display |-> "Forbidden", debug |-> "Forbidden"]}

Ok(status, body) == [kind |-> "Ok", status |-> status, body |-> body]

Err(e) == [kind |-> "Err", err |-> e]

\* http::StatusCode holds 100..=999.
StatusCodes == 100..999

AllOutcomes ==
    {Ok(c, "body") : c \in StatusCodes} \cup {Ok(200, "other")}
    \cup {Err(e) : e \in Errors}

SampleOutcomes ==
    {Ok(200, "body"), Ok(404, "other"),
     Err([display |-> "db timeout", debug |-> "\"db timeout\""])}

(***************************************************************************)
(* Library and helper functions the middleware calls.                      *)
(***************************************************************************)

\* CarrierGet without the to_str check.
CarrierGetAnyValue(headers, key) ==
    IF key \in DOMAIN headers THEN Some(headers[key].val) ELSE None

\* RequestHeaderCarrier::get: the value of a header that is present and text.
CarrierGet(headers, key) ==
    IF key \in DOMAIN headers /\ headers[key].text
    THEN Some(headers[key].val)
    ELSE None

\* RequestHeaderCarrier::keys: the names of all headers.
CarrierKeys(headers) == DOMAIN headers

\* The header names the propagator asks the carrier for.
LookupKeys == {"traceparent", "tracestate"}

\* What the carrier built over the headers answers during extraction.
Carrier(headers) ==
    [get |-> [k \in LookupKeys |-> CarrierGet(headers, k)],
     keys |-> CarrierKeys(headers)]

\* A context: the active span (0 when none; spans are named by their slot)
\* and the remote span context taken from the wire.
EmptyContext == [span |-> 0, remote |-> None]

\* The propagator's parse of a traceparent value: four fields, version 00,
\* non-zero trace id and span id.
ParseTraceparent(v) ==
    IF Len(v) = 4 /\ v[1] = 0 /\ v[2] # 0 /\ v[3] # 0
    THEN Some([trace |-> v[2], span |-> v[3]])
    ELSE None

\* propagator.extract(carrier): the current context, with the remote span
\* context of the header when one is present and parses.
ExtractContext(cur, headers) ==
    LET v == CarrierGet(headers, "traceparent")
        remote == IF v = None THEN None ELSE ParseTraceparent(v[1])
    IN  IF remote = None THEN cur ELSE [cur EXCEPT !.remote = remote]

\* MatchedRoute falling back to the path of the request.
MatchedRouteOrPath(request) ==
    IF request.match_pattern = None
    THEN <<"/", "Users", "/", "42">>
    ELSE request.match_pattern[1]

\* req.match_pattern().unwrap_or_else(|| "default".to_string())
MatchedRoute(request) ==
    IF request.match_pattern = None THEN <<"default">> ELSE request.match_pattern[1]

\* str::to_lowercase on one token.
LowerToken(t) == IF t = "Users" THEN "users" ELSE t

\* The formatter of the documentation example: path.to_lowercase().
MyLowercaseFormatter(path) == [i \in 1..Len(path) |-> LowerToken(path[i])]

Formatters == {"MyLowercaseFormatter"}

\* if let Some(formatter) = &self.route_formatter { formatter.format(..) }
FormatRoute(formatter, route) ==
    IF formatter = None THEN route ELSE MyLowercaseFormatter(route)

\* format!("{:?}", req.version()).replace("HTTP/", "")
Flavor(version) == SelectSeq(version, LAMBDA t : t # "HTTP/")

\* str::parse::<u64>() of one piece.
ParseU64(piece) ==
    IF piece = "8080" THEN Some(8080)
    ELSE IF piece = "9090" THEN Some(9090)
    ELSE IF piece = "1234" THEN Some(1234)
    ELSE None

\* str::split_terminator(':'): the pieces, without a trailing empty one.
SplitTerminator(pieces) ==
    IF Len(pieces) > 0 /\ pieces[Len(pieces)] = ""
    THEN SubSeq(pieces, 1, Len(pieces) - 1)
    ELSE pieces

\* conn_info.host().split_terminator(':').nth(1).and_then(|p| p.parse().ok())
HostPort(host) ==
    LET parts == SplitTerminator(host)
    IN  IF Len(parts) >= 2 THEN ParseU64(parts[2]) ELSE None

\* SocketAddr::to_string: "ip:port".
SocketToString(socket) == <<socket.ip, socket.port>>

Attr(key, value) == [key |-> key, value |-> value]

\* ServerNameAttribute without the comparison with the connection host.
ServerNameAttributeAlways(server_name, host) ==
    <<Attr("http.server_name", server_name)>>

\* if server_name != conn_info.host() { push(HTTP_SERVER_NAME) }
ServerNameAttribute(server_name, host) ==
    IF server_name # host THEN <<Attr("http.server_name", server_name)>> ELSE <<>>

\* if let Some(port) = ... { push(NET_HOST_PORT.u64(port)) }
HostPortAttribute(host) ==
    LET port == HostPort(host)
    IN  IF port = None THEN <<>> ELSE <<Attr("net.host.port", port[1])>>

\* if let Some(path) = req.uri().path_and_query() { push(HTTP_TARGET) }
TargetAttribute(target) ==
    IF target = None THEN <<>> ELSE <<Attr("http.target", target[1])>>

\* if let Some(user_agent) = headers.get(USER_AGENT).and_then(to_str) { push }
UserAgentAttribute(headers) ==
    LET ua == CarrierGet(headers, "user-agent")
    IN  IF ua = None THEN <<>> ELSE <<Attr("http.user_agent", ua[1])>>

\* if let Some(remote) = remote_addr { push(HTTP_CLIENT_IP) }
ClientIpAttribute(remote_addr) ==
    IF remote_addr = None THEN <<>> ELSE <<Attr("http.client_ip", remote_addr[1])>>

\* PeerIpAttribute without the comparison with the client address.
PeerIpAttributeAlways(peer, remote_addr) ==
    IF peer = None THEN <<>>
    ELSE <<Attr("net.peer.ip", SocketToString(peer[1]))>>

\* if let Some(peer_addr) = req.peer_addr().map(to_string) {
\*     if Some(peer_addr.as_str()) != remote_addr { push(NET_PEER_IP) } }
PeerIpAttribute(peer, remote_addr) ==
    IF peer = None THEN <<>>
    ELSE LET peer_addr == SocketToString(peer[1])
         IN  IF Some(peer_addr) # remote_addr
             THEN <<Attr("net.peer.ip", peer_addr)>>
             ELSE <<>>

\* The attribute vector of call(), in the order the code pushes.
CollectAttributes(request, route) ==
    << Attr("http.method", request.method),
       Attr("http.flavor", Flavor(request.version)),
       Attr("http.host", request.host),
       Attr("http.route", route),
       Attr("http.scheme", request.scheme) >>
    \o ServerNameAttribute(request.server_name, request.host)
    \o HostPortAttribute(request.host)
    \o TargetAttribute(request.target)
    \o UserAgentAttribute(request.headers)
    \o ClientIpAttribute(request.realip)
    \o PeerIpAttribute(request.peer_addr, request.realip)

\* The parent tracer.build picks from the current context: its active span,
\* else its remote span context, else none (the span roots a new trace).
ParentOf(c) ==
    IF c.span # 0 THEN [kind |-> "local", trace |-> 0, span |-> c.span]
    ELSE IF c.remote # None
         THEN [kind |-> "remote", trace |-> c.remote[1].trace, span |-> c.remote[1].span]
         ELSE [kind |-> "root", trace |-> 0, span |-> 0]

\* NewSpan without builder.attributes: the span starts with no attribute.
NewSpanBare(name, attrs, cur, recording) ==
    [name |-> name, kind |-> "Server", attributes |-> <<>>,
     parent |-> ParentOf(cur), status |-> "Unset", message |-> "",
     ended |-> FALSE, endCalls |-> 0, ops |-> <<>>, recording |-> recording]

\* tracer.span_builder(&http_route), kind Server, attributes, tracer.build.
NewSpan(name, attrs, cur, recording) ==
    [name |-> name, kind |-> "Server", attributes |-> attrs,
     parent |-> ParentOf(cur), status |-> "Unset", message |-> "",
     ended |-> FALSE, endCalls |-> 0, ops |-> <<>>, recording |-> recording]

\* Span::set_attribute, Span::set_status and Span::end: a write to a span
\* that has ended is dropped.
SetAttribute(s, kv) ==
    [s EXCEPT !.ops = Append(@, "set_attribute"),
              !.attributes = IF s.ended THEN @ ELSE Append(@, kv)]

SetStatus(s, code, message) ==
    [s EXCEPT !.ops = Append(@, "set_status"),
              !.status = IF s.ended THEN @ ELSE code,
              !.message = IF s.ended THEN @ ELSE message]

End(s) ==
    [s EXCEPT !.ops = Append(@, "end"), !.ended = TRUE, !.endCalls = @ + 1]

\* StatusMap with the range arms tried before the single codes.
StatusMapRangesFirst(code) ==
    IF code >= 100 /\ code <= 399 THEN "OK"
    ELSE IF code >= 400 /\ code <= 499 THEN "InvalidArgument"
    ELSE IF code >= 500 /\ code <= 599 THEN "Internal"
    ELSE IF code = 401 THEN "Unauthenticated"
    ELSE IF code = 403 THEN "PermissionDenied"
    ELSE IF code = 404 THEN "NotFound"
    ELSE IF code = 429 THEN "ResourceExhausted"
    ELSE IF code = 501 THEN "Unimplemented"
    ELSE IF code = 503 THEN "Unavailable"
    ELSE IF code = 504 THEN "DeadlineExceeded"
    ELSE "Unknown"

\* The match on ok_res.status().as_u16(): the first arm that matches.
StatusMap(code) ==
    IF code >= 100 /\ code <= 399 THEN "OK"
    ELSE IF code = 401 THEN "Unauthenticated"
    ELSE IF code = 403 THEN "PermissionDenied"
    ELSE IF code = 404 THEN "NotFound"
    ELSE IF code = 429 THEN "ResourceExhausted"
    ELSE IF code >= 400 /\ code <= 499 THEN "InvalidArgument"
    ELSE IF code = 501 THEN "Unimplemented"
    ELSE IF code = 503 THEN "Unavailable"
    ELSE IF code = 504 THEN "DeadlineExceeded"
    ELSE IF code >= 500 /\ code <= 599 THEN "Internal"
    ELSE "Unknown"

\* format!("{:?}", err)
FormatDebug(err) == err.debug

\* FinishOk with the status-code attribute written after span.end().
FinishOkAttributeLate(s, res) ==
    SetAttribute(End(SetStatus(s, StatusMap(res.status), "")),
                 Attr("http.status_code", res.status))

\* FinishOk with span.end() called first and the span annotated afterwards.
FinishOkEndFirst(s, res) ==
    SetStatus(SetAttribute(End(s), Attr("http.status_code", res.status)),
              StatusMap(res.status), "")

\* The Ok arm of the map closure, applied to the span.
FinishOk(s, res) ==
    End(SetStatus(SetAttribute(s, Attr("http.status_code", res.status)),
                  StatusMap(res.status), ""))

\* FinishErr without the call of span.end().
FinishErrNoEnd(s, err) == SetStatus(s, "Internal", FormatDebug(err))

\* FinishErr with span.end() called before set_status.
FinishErrEndFirst(s, err) == SetStatus(End(s), "Internal", FormatDebug(err))

\* The Err arm of the map closure, applied to the span.
FinishErr(s, err) == End(SetStatus(s, "Internal", FormatDebug(err)))

\* Yield with a failure turned into an empty 500 response.
YieldSwallow(res) == IF res.kind = "Err" THEN Ok(500, "") ELSE res

\* What the map closure hands on: Ok(ok_res) or Err(err).
Yield(res) == res

\* What a service's poll_ready returns: Poll::Ready(Ok(())), Poll::Pending
\* or Poll::Ready(Err(e)).
Readiness ==
    {[kind |-> "Ready", error |-> None], [kind |-> "Pending", error |-> None]}
        \cup {[kind |-> "Err", error |-> Some(e)] : e \in Errors}

PollReadyHidesError(inner) ==
    IF inner.kind = "Err" THEN [kind |-> "Ready", error |-> None] ELSE inner

\* poll_ready: self.service.poll_ready(cx), returned as it is.
PollReadyResult(inner) == inner

(***************************************************************************)
(* State.                                                                  *)
(***************************************************************************)

VARIABLES
    route_formatter,  \* RequestTracingMiddleware.route_formatter (an Option)
    tracerInstalled,  \* whether global::tracer is a real tracer or the no-op one
    current,          \* the worker thread's current context
    running,          \* the slot whose call() or poll() is on the thread, or 0
    slot,             \* per request: position and locals of call() and its future
    ready             \* the latest poll_ready: what the inner service returned
                      \* and what the middleware returned, or None

vars == <<route_formatter, tracerInstalled, current, running, slot, ready>>

\* A request that has not arrived.  pc is the position in call() or in the
\* future; guard is the context a live ContextGuard restores when dropped;
\* events is the order in which the steps of this request took place;
\* callSeen and pollSeen are the current context the inner service ran under
\* in its call() and in the latest poll of its future; carrier is what the
\* RequestHeaderCarrier answered while the context was extracted.
IdleSlot ==
    [pc |-> "idle", req |-> None, parent_context |-> None, guard |-> None,
     http_route |-> None, formatCalls |-> 0, attributes |-> None,
     span |-> None, spansBuilt |-> 0, cx |-> None,
     innerCalls |-> 0, innerReq |-> None, outcome |-> None, result |-> None,
     events |-> <<>>, callSeen |-> None, pollSeen |-> None, carrier |-> None]

Init ==
    /\ route_formatter \in {None} \cup {Some(f) : f \in Formatters}
    /\ tracerInstalled \in BOOLEAN
    /\ current = EmptyContext
    /\ running = 0
    /\ slot = [r \in Slots |-> IdleSlot]
    /\ ready = None

(***************************************************************************)
(* call(): one action per statement group, in program order.               *)
(***************************************************************************)

\* propagator.extract(&RequestHeaderCarrier::new(req.headers_mut()))
Extract(r, Q) ==
    /\ running = 0
    /\ slot[r].pc = "idle"
    /\ \E q \in Q :
         slot' = [slot EXCEPT ![r].pc = "extracted",
                              ![r].req = Some(q),
                              ![r].parent_context = Some(ExtractContext(current, q.headers)),
                              ![r].carrier = Some(Carrier(q.headers)),
                              ![r].events = Append(@, "extract")]
    /\ running' = r
    /\ UNCHANGED <<route_formatter, tracerInstalled, ready, current>>

\* .attach(): the extracted context becomes current, the guard keeps the old one.
Attach(r) ==
    /\ running = r
    /\ slot[r].pc = "extracted"
    /\ current' = slot[r].parent_context[1]
    /\ slot' = [slot EXCEPT ![r].pc = "attached", ![r].guard = Some(current),
                            ![r].events = Append(@, "attach")]
    /\ UNCHANGED <<route_formatter, tracerInstalled, ready, running>>

\* http_route: the matched pattern or "default", through the formatter if any.
ResolveRoute(r) ==
    /\ running = r
    /\ slot[r].pc = "attached"
    /\ slot' = [slot EXCEPT
           ![r].pc = "routed",
           ![r].http_route = Some(FormatRoute(route_formatter, MatchedRoute(slot[r].req[1]))),
           ![r].formatCalls = IF route_formatter = None THEN @ ELSE @ + 1,
           ![r].events = Append(@, "route")]
    /\ UNCHANGED <<route_formatter, tracerInstalled, ready, current, running>>

\* The attribute vector.
Collect(r) ==
    /\ running = r
    /\ slot[r].pc = "routed"
    /\ slot' = [slot EXCEPT
           ![r].pc = "collected",
           ![r].attributes = Some(CollectAttributes(slot[r].req[1], slot[r].http_route[1])),
           ![r].events = Append(@, "attributes")]
    /\ UNCHANGED <<route_formatter, tracerInstalled, ready, current, running>>

\* tracer.build(builder) and Context::current_with_span(span).
BuildSpan(r) ==
    /\ running = r
    /\ slot[r].pc = "collected"
    /\ slot' = [slot EXCEPT
           ![r].pc = "built",
           ![r].span = Some(NewSpan(slot[r].http_route[1], slot[r].attributes[1],
                                    current, tracerInstalled)),
           ![r].spansBuilt = @ + 1,
           ![r].cx = Some([current EXCEPT !.span = r]),
           ![r].events = Append(@, "span")]
    /\ UNCHANGED <<route_formatter, tracerInstalled, ready, current, running>>

\* InvokeInner that skips the inner service when only the no-op tracer exists.
InvokeInnerIfTraced(r) ==
    /\ running = r
    /\ slot[r].pc = "built"
    /\ slot' = [slot EXCEPT ![r].pc = "invoked",
                            ![r].innerCalls = IF tracerInstalled THEN @ + 1 ELSE @,
                            ![r].innerReq = IF tracerInstalled THEN slot[r].req ELSE @,
                            ![r].callSeen = IF tracerInstalled THEN Some(current) ELSE @,
                            ![r].events = IF tracerInstalled THEN Append(@, "invoke") ELSE @]
    /\ UNCHANGED <<route_formatter, tracerInstalled, ready, current, running>>

\* self.service.call(req): the inner service is handed the request and runs
\* its call() under the context that is current at this point.
InvokeInner(r) ==
    /\ running = r
    /\ slot[r].pc = "built"
    /\ slot' = [slot EXCEPT ![r].pc = "invoked",
                            ![r].innerCalls = @ + 1,
                            ![r].innerReq = slot[r].req,
                            ![r].callSeen = Some(current),
                            ![r].events = Append(@, "invoke")]
    /\ UNCHANGED <<route_formatter, tracerInstalled, ready, current, running>>

\* RestoreAfterCall with the guard lost: the attached context stays current.
RestoreAfterCallLeak(r) == current

\* The context the guard of call() puts back when call() returns.
RestoreAfterCall(r) == slot[r].guard[1]

\* CallReturn that ends the span when call() returns, not on settlement.
CallReturnEndsSpan(r) ==
    /\ running = r
    /\ slot[r].pc = "invoked"
    /\ current' = RestoreAfterCall(r)
    /\ slot' = [slot EXCEPT ![r].pc = "pending", ![r].guard = None,
                            ![r].span = Some(End(slot[r].span[1])),
                            ![r].events = Append(@, "end")]
    /\ running' = 0
    /\ UNCHANGED <<route_formatter, tracerInstalled, ready>>

\* The future is wrapped and boxed; call() returns and drops _parent_context.
CallReturn(r) ==
    /\ running = r
    /\ slot[r].pc = "invoked"
    /\ current' = RestoreAfterCall(r)
    /\ slot' = [slot EXCEPT ![r].pc = "pending", ![r].guard = None]
    /\ running' = 0
    /\ UNCHANGED <<route_formatter, tracerInstalled, ready>>

(***************************************************************************)
(* The returned future: with_context(cx) around the inner future, then map. *)
(***************************************************************************)

\* PollEnter for a future that was not wrapped in with_context.
PollEnterNoContext(r) ==
    /\ running = 0
    /\ slot[r].pc = "pending"
    /\ running' = r
    /\ current' = current
    /\ slot' = [slot EXCEPT ![r].pc = "polling", ![r].guard = Some(current)]
    /\ UNCHANGED <<route_formatter, tracerInstalled, ready>>

\* A poll begins: WithContext attaches cx for the length of the inner poll.
PollEnter(r) ==
    /\ running = 0
    /\ slot[r].pc = "pending"
    /\ running' = r
    /\ current' = slot[r].cx[1]
    /\ slot' = [slot EXCEPT ![r].pc = "polling", ![r].guard = Some(current)]
    /\ UNCHANGED <<route_formatter, tracerInstalled, ready>>

\* The inner future is polled: it is still pending, or it settles.
PollInner(r, O) ==
    /\ running = r
    /\ slot[r].pc = "polling"
    /\ \E o \in {None} \cup {Some(x) : x \in O} :
         slot' = [slot EXCEPT ![r].pc = "polled", ![r].outcome = o,
                              ![r].pollSeen = Some(current),
                              ![r].events = IF o = None THEN @ ELSE Append(@, "settle")]
    /\ UNCHANGED <<route_formatter, tracerInstalled, ready, current, running>>

\* RestoreAfterPoll with the guard lost: cx stays current after the poll.
RestoreAfterPollLeak(r) == current

\* The context the guard of WithContext::poll puts back.
RestoreAfterPoll(r) == slot[r].guard[1]

\* WithContext::poll returns and drops its guard.  A pending poll ends here;
\* a ready one goes on to the map closure within the same poll.
PollExit(r) ==
    /\ running = r
    /\ slot[r].pc = "polled"
    /\ current' = RestoreAfterPoll(r)
    /\ IF slot[r].outcome = None
       THEN /\ slot' = [slot EXCEPT ![r].pc = "pending", ![r].guard = None]
            /\ running' = 0
       ELSE /\ slot' = [slot EXCEPT ![r].pc = "settled", ![r].guard = None]
            /\ running' = r
    /\ UNCHANGED <<route_formatter, tracerInstalled, ready>>

\* The map closure: annotate and end the span, hand the result on.
Complete(r) ==
    /\ running = r
    /\ slot[r].pc = "settled"
    /\ LET res == slot[r].outcome[1]
           s == slot[r].span[1]
           finished == IF res.kind = "Ok" THEN FinishOk(s, res) ELSE FinishErr(s, res.err)
       IN  slot' = [slot EXCEPT
               ![r].pc = "done",
               ![r].span = Some(finished),
               ![r].result = Some(Yield(res)),
               ![r].events = @ \o SubSeq(finished.ops, Len(s.ops) + 1, Len(finished.ops))]
    /\ running' = 0
    /\ UNCHANGED <<route_formatter, tracerInstalled, ready, current>>

\* DropFuture with a cleanup that ends the span of the dropped future.
DropFutureEndsSpan(r) ==
    /\ running = 0
    /\ slot[r].pc = "pending"
    /\ slot' = [slot EXCEPT ![r].pc = "dropped",
                            ![r].span = Some(End(slot[r].span[1]))]
    /\ UNCHANGED <<route_formatter, tracerInstalled, ready, current, running>>

\* The executor drops the future before the inner handler has settled.
DropFuture(r) ==
    /\ running = 0
    /\ slot[r].pc = "pending"
    /\ slot' = [slot EXCEPT ![r].pc = "dropped"]
    /\ UNCHANGED <<route_formatter, tracerInstalled, ready, current, running>>

(***************************************************************************)
(* poll_ready(): the server asks for readiness between calls and polls.    *)
(***************************************************************************)

PollReady ==
    /\ running = 0
    /\ \E inner \in Readiness :
           ready' = Some([inner |-> inner, outer |-> PollReadyResult(inner)])
    /\ UNCHANGED <<route_formatter, tracerInstalled, current, running, slot>>

(***************************************************************************)
(* Specifications.                                                         *)
(***************************************************************************)

\* The steps of the requests in S, with requests drawn from Q and handler
\* outcomes from O.
Run(S, Q, O) ==
    \E r \in S :
        \/ Extract(r, Q)
        \/ Attach(r)
        \/ ResolveRoute(r)
        \/ Collect(r)
        \/ BuildSpan(r)
        \/ InvokeInner(r)
        \/ CallReturn(r)
        \/ PollEnter(r)
        \/ PollInner(r, O)
        \/ PollExit(r)
        \/ Complete(r)
        \/ DropFuture(r)

\* Requests in flight together on the worker.
Next == Run(Slots, SampleRequests, SampleOutcomes)

Spec == Init /\ [][Next]_vars

\* One request at a time, over every request of AllRequests.
NextRequests == Run({1}, AllRequests, SampleOutcomes)

SpecRequests == Init /\ [][NextRequests]_vars

\* One request at a time, over every outcome of the inner handler.
NextOutcomes == Run({1}, OneRequest, AllOutcomes)

SpecOutcomes == Init /\ [][NextOutcomes]_vars

\* Requests in flight together, with readiness asked at any point between
\* their steps.
NextReady == Run(Slots, OneRequest, SampleOutcomes) \/ PollReady

SpecReady == Init /\ [][NextReady]_vars

(***************************************************************************)
(* Properties.                                                             *)
(***************************************************************************)

Settled(r) == slot[r].pc = "done"

SettledOk(r) == Settled(r) /\ slot[r].outcome[1].kind = "Ok"

SettledErr(r) == Settled(r) /\ slot[r].outcome[1].kind = "Err"

\* The attributes of a sequence that carry a key.
WithKey(attrs, key) == SelectSeq(attrs, LAMBDA a : a.key = key)

\* C1: every request whose inner handler settled has exactly one span, built
\* once and ended exactly once; no span is ended twice, none is ended before
\* its handler settled, and no settled request leaves its span open, whatever
\* the other slots are doing.
C1_OneSpanEndedOnce ==
    \A r \in Slots :
        /\ slot[r].spansBuilt <= 1
        /\ (slot[r].span # None) = (slot[r].spansBuilt = 1)
        /\ slot[r].span # None =>
              /\ slot[r].span[1].endCalls <= 1
              /\ slot[r].span[1].ended = (slot[r].span[1].endCalls = 1)
              /\ slot[r].span[1].ended = Settled(r)
        /\ Settled(r) => slot[r].spansBuilt = 1 /\ slot[r].span[1].endCalls = 1

\* Two requests in flight together have both settled, one with a response
\* and one with a failure, and each span has been ended.
C1_Witness ==
    \E r1, r2 \in Slots :
        /\ r1 # r2
        /\ SettledOk(r1) /\ SettledErr(r2)
        /\ slot[r1].span[1].ended /\ slot[r2].span[1].ended

\* C2: the value the middleware's future yields is the value the inner
\* handler settled with, response or failure, and nothing is yielded before
\* the handler settles.
C2_ResultUnchanged ==
    \A r \in Slots :
        /\ (slot[r].result # None) = Settled(r)
        /\ Settled(r) => slot[r].result = slot[r].outcome

\* A failure has been handed on to the caller.
C2_Witness ==
    \E r \in Slots : SettledErr(r) /\ slot[r].result[1].kind = "Err"

\* C3 as stated: after a failure the span's status is Internal, its message
\* is the failure's displayable description, set before the span was ended.
C3_MessageIsDisplay ==
    \A r \in Slots :
        SettledErr(r) =>
            /\ slot[r].span[1].status = "Internal"
            /\ slot[r].span[1].message = slot[r].outcome[1].err.display
            /\ slot[r].span[1].ops = <<"set_status", "end">>

\* C3 as amended: after a failure the span's status is Internal and its
\* message is the failure's Debug rendering, set before the span was ended.
C3_MessageIsDebug ==
    \A r \in Slots :
        SettledErr(r) =>
            /\ slot[r].span[1].status = "Internal"
            /\ slot[r].span[1].message = slot[r].outcome[1].err.debug
            /\ slot[r].span[1].ops = <<"set_status", "end">>
            /\ slot[r].span[1].ended

\* A failure displayed as "db timeout" has settled and its span carries the
\* quoted Debug text.
C3_Witness ==
    \E r \in Slots :
        /\ SettledErr(r)
        /\ slot[r].outcome[1].err.display = "db timeout"
        /\ slot[r].span[1].message = "\"db timeout\""

\* The reference mapping of C4, each row with the codes it covers.
ReferenceStatus(c) ==
    CASE c = 401 -> "Unauthenticated"
      [] c = 403 -> "PermissionDenied"
      [] c = 404 -> "NotFound"
      [] c = 429 -> "ResourceExhausted"
      [] c = 501 -> "Unimplemented"
      [] c = 503 -> "Unavailable"
      [] c = 504 -> "DeadlineExceeded"
      [] c \in 100..399 -> "OK"
      [] c \in (400..499) \ {401, 403, 404, 429} -> "InvalidArgument"
      [] c \in (500..599) \ {501, 503, 504} -> "Internal"
      [] c \notin 100..599 -> "Unknown"

\* C4: for every status code a response carries, the status of the span on
\* the success path is the one the reference mapping gives, the single codes
\* taking precedence over their ranges.
C4_StatusFollowsReference ==
    \A r \in Slots :
        SettledOk(r) =>
            slot[r].span[1].status = ReferenceStatus(slot[r].outcome[1].status)

\* A response with a single code inside a range has settled.
C4_Witness ==
    \E r \in Slots : SettledOk(r) /\ slot[r].outcome[1].status = 429

\* C5: after a response with status code c the ended span carries exactly
\* one http.status_code attribute, with value c, and the status mapped from
\* that same c, with an empty message.
C5_StatusCodeAttribute ==
    \A r \in Slots :
        SettledOk(r) =>
            LET c == slot[r].outcome[1].status
                s == slot[r].span[1]
            IN  /\ WithKey(s.attributes, "http.status_code")
                     = <<Attr("http.status_code", c)>>
                /\ s.status = ReferenceStatus(c)
                /\ s.message = ""
                /\ s.ended

\* A 404 response has settled: attribute 404, status NotFound.
C5_Witness ==
    \E r \in Slots :
        /\ SettledOk(r)
        /\ slot[r].outcome[1].status = 404
        /\ slot[r].span[1].status = "NotFound"
        /\ WithKey(slot[r].span[1].attributes, "http.status_code")
             = <<Attr("http.status_code", 404)>>

\* The remote span context a request's own headers propagate, if any: the
\* traceparent header is present, is text and parses.
Propagated(request) ==
    IF "traceparent" \in DOMAIN request.headers /\ request.headers["traceparent"].text
    THEN ParseTraceparent(request.headers["traceparent"].val)
    ELSE None

\* C6: the span of a request is parented to the trace its own headers
\* propagate, and roots a new trace when they propagate none (no header, or
\* one that does not parse); it is never parented to another request's span
\* or propagated context, whatever requests are in flight with it.
C6_ParentFromOwnHeaders ==
    \A r \in Slots :
        slot[r].span # None =>
            LET remote == Propagated(slot[r].req[1])
                parent == slot[r].span[1].parent
            IN  IF remote = None
                THEN parent = [kind |-> "root", trace |-> 0, span |-> 0]
                ELSE parent = [kind |-> "remote", trace |-> remote[1].trace,
                               span |-> remote[1].span]

\* A request carrying trace 1 is in flight, its handler not settled, when a
\* request with an unparsable header gets its span, which roots a new trace.
C6_Witness ==
    \E r1, r2 \in Slots :
        /\ r1 # r2
        /\ slot[r1].pc = "pending" /\ slot[r1].outcome = None
        /\ slot[r1].span[1].parent.kind = "remote"
        /\ slot[r1].span[1].parent.trace = 1
        /\ slot[r2].pc = "built"
        /\ "traceparent" \in DOMAIN slot[r2].req[1].headers
        /\ slot[r2].span[1].parent.kind = "root"

\* The contexts request r itself makes current: the one it extracted and
\* the one holding its span.
OwnContexts(r) ==
    {c[1] : c \in {slot[r].parent_context, slot[r].cx} \ {None}}

\* C7: between calls and polls the worker's current context is the one it
\* had before them (the empty context the worker starts with), and while a
\* call or poll of request r runs the current context is that one or one of
\* r's own, never the extracted context or span of another request.
C7_AmbientRestored ==
    /\ running = 0 => current = EmptyContext
    /\ \A r \in Slots :
          running = r =>
              /\ current \in {EmptyContext} \cup OwnContexts(r)
              /\ current.span \in {0, r}
              /\ slot[r].guard # None => slot[r].guard[1] = EmptyContext

\* A poll of one request has returned and settled it while another request
\* with a different propagated trace is still in flight; nothing is running.
C7_Witness ==
    \E r1, r2 \in Slots :
        /\ r1 # r2
        /\ running = 0
        /\ Settled(r1) /\ slot[r2].pc = "pending"
        /\ slot[r1].cx[1].remote # None /\ slot[r2].cx[1].remote # None
        /\ slot[r1].cx[1].remote # slot[r2].cx[1].remote
        /\ current = EmptyContext

\* The positions at which call() has already handed the request on.
AfterInvoke == {"invoked", "pending", "polling", "polled", "settled", "done", "dropped"}

\* C8: whatever the request and the tracer, call() invokes the inner
\* handler exactly once, with the request it was given; no step of call()
\* or of the future can fail to continue; and the caller sees a failure only
\* when the inner handler failed, and then that failure.
C8_InnerInvokedOnce ==
    \A r \in Slots :
        /\ slot[r].innerCalls = (IF slot[r].pc \in AfterInvoke THEN 1 ELSE 0)
        /\ slot[r].pc \in AfterInvoke => slot[r].innerReq = slot[r].req
        /\ running = r => ENABLED NextRequests
        /\ (slot[r].result # None /\ slot[r].result[1].kind = "Err") =>
              /\ slot[r].outcome[1].kind = "Err"
              /\ slot[r].result[1].err = slot[r].outcome[1].err

\* With only the no-op tracer, a request without headers and without a
\* matched route has been served with the handler's response.
C8_Witness ==
    \E r \in Slots :
        /\ ~tracerInstalled
        /\ SettledOk(r)
        /\ slot[r].req[1].match_pattern = None
        /\ DOMAIN slot[r].req[1].headers = {}
        /\ slot[r].innerCalls = 1
        /\ slot[r].result[1].kind = "Ok"

\* The pattern the router matched, or "default".
PatternOrDefault(request) ==
    IF Len(request.match_pattern) = 0 THEN <<"default">> ELSE Head(request.match_pattern)

\* C9: with p the matched pattern or "default", the span name and the
\* http.route attribute both equal p when no formatter is configured, and
\* both equal format(p), the formatter having run once, when one is.
C9_RouteName ==
    \A r \in Slots :
        slot[r].span # None =>
            LET p == PatternOrDefault(slot[r].req[1])
                expected == IF route_formatter = None THEN p
                            ELSE MyLowercaseFormatter(p)
            IN  /\ slot[r].span[1].name = expected
                /\ WithKey(slot[r].span[1].attributes, "http.route")
                     = <<Attr("http.route", expected)>>
                /\ slot[r].formatCalls = (IF route_formatter = None THEN 0 ELSE 1)

\* With the lower-casing formatter, /Users/{id} is reported as /users/{id}.
C9_Witness ==
    \E r \in Slots :
        /\ route_formatter # None
        /\ slot[r].span # None
        /\ slot[r].req[1].match_pattern = Some(PatternUsers)
        /\ slot[r].span[1].name = <<"/", "users", "/", "{id}">>

\* C10: net.peer.ip is on the span exactly when the request has a peer
\* address and its "ip:port" text differs from the value of http.client_ip
\* (or there is no resolved client address); its value is then that text.
\* http.client_ip is on the span exactly when a client address is resolved.
C10_PeerIpIffDiffers ==
    \A r \in Slots :
        slot[r].span # None =>
            LET request == slot[r].req[1]
                attrs == slot[r].span[1].attributes
                peerText == <<request.peer_addr[1].ip, request.peer_addr[1].port>>
                differs == /\ request.peer_addr # None
                           /\ (request.realip = None \/ request.realip[1] # peerText)
            IN  /\ WithKey(attrs, "net.peer.ip")
                     = (IF differs THEN <<Attr("net.peer.ip", peerText)>> ELSE <<>>)
                /\ WithKey(attrs, "http.client_ip")
                     = (IF request.realip = None THEN <<>>
                        ELSE <<Attr("http.client_ip", request.realip[1])>>)

\* Behind a proxy both attributes are on the span.
C10_Witness ==
    \E r \in Slots :
        /\ slot[r].span # None
        /\ slot[r].req[1].realip = Some(<<"203.0.113.9">>)
        /\ Len(WithKey(slot[r].span[1].attributes, "net.peer.ip")) = 1
        /\ Len(WithKey(slot[r].span[1].attributes, "http.client_ip")) = 1

\* C11: http.host is always on the span, with the connection's host, and
\* http.server_name is on it exactly when the server's configured host
\* differs from the connection's host; its value is then the configured host.
C11_ServerNameIffDiffers ==
    \A r \in Slots :
        slot[r].span # None =>
            LET request == slot[r].req[1]
                attrs == slot[r].span[1].attributes
            IN  /\ WithKey(attrs, "http.host") = <<Attr("http.host", request.host)>>
                /\ WithKey(attrs, "http.server_name")
                     = (IF request.server_name = request.host THEN <<>>
                        ELSE <<Attr("http.server_name", request.server_name)>>)

\* The two hosts are equal and the span carries http.host alone.
C11_Witness ==
    \E r \in Slots :
        /\ slot[r].span # None
        /\ slot[r].req[1].server_name = <<"example.com">>
        /\ slot[r].req[1].host = <<"example.com">>
        /\ WithKey(slot[r].span[1].attributes, "http.server_name") = <<>>
        /\ Len(WithKey(slot[r].span[1].attributes, "http.host")) = 1

\* C12 as stated: whenever code of the inner service runs for request r, in
\* its call() or in a poll of its future, the current context carries r's span.
C12_SpanCurrentForInner ==
    \A r \in Slots :
        /\ slot[r].callSeen # None => slot[r].callSeen[1].span = r
        /\ slot[r].pollSeen # None => slot[r].pollSeen[1].span = r

\* C12 as amended: every poll of the inner future of request r runs under
\* the context that carries r's span; the inner service's call() runs under
\* the context extracted from r's headers, which carries no span.
C12_SpanCurrentAtPolls ==
    \A r \in Slots :
        /\ slot[r].pollSeen # None =>
              /\ slot[r].pollSeen = slot[r].cx
              /\ slot[r].pollSeen[1].span = r
        /\ slot[r].callSeen # None =>
              /\ slot[r].callSeen = slot[r].parent_context
              /\ slot[r].callSeen[1].span = 0

\* Two requests in flight have both been invoked and polled, one settled.
C12_Witness ==
    \E r1, r2 \in Slots :
        /\ r1 # r2
        /\ Settled(r1) /\ slot[r1].pollSeen # None /\ slot[r1].callSeen # None
        /\ slot[r2].pc = "pending" /\ slot[r2].pollSeen # None
        /\ slot[r1].cx # slot[r2].cx

\* The events of a sequence that belong to a set, in their order.
Only(events, names) == SelectSeq(events, LAMBDA e : e \in names)

IsPrefix(a, b) == Len(a) <= Len(b) /\ a = SubSeq(b, 1, Len(a))

\* C13: for each request the span is created, then the inner handler is
\* invoked, then it settles, then the status is set and the span is ended,
\* each once and in this order; the span is never ended before the handler
\* has settled and the handler is never invoked before the span exists.
C13_LifecycleOrder ==
    \A r \in Slots :
        /\ IsPrefix(Only(slot[r].events, {"span", "invoke", "settle", "set_status", "end"}),
                    <<"span", "invoke", "settle", "set_status", "end">>)
        /\ slot[r].innerCalls > 0 => slot[r].span # None
        /\ (slot[r].span # None /\ slot[r].span[1].ended) => slot[r].outcome # None
        /\ Settled(r) =>
              Only(slot[r].events, {"span", "invoke", "settle", "set_status", "end"})
                = <<"span", "invoke", "settle", "set_status", "end">>

\* One request has gone through all five events while another has been
\* invoked and has not settled.
C13_Witness ==
    \E r1, r2 \in Slots :
        /\ r1 # r2
        /\ Settled(r1)
        /\ Only(slot[r1].events, {"span", "invoke", "settle", "set_status", "end"})
             = <<"span", "invoke", "settle", "set_status", "end">>
        /\ slot[r2].pc = "pending"
        /\ Only(slot[r2].events, {"span", "invoke", "settle", "set_status", "end"})
             = <<"span", "invoke">>

EntrySteps == <<"extract", "attach", "route", "attributes", "span">>

\* The positions of call() at which the extracted context is attached.
WhileAttached == {"attached", "routed", "collected", "built", "invoked"}

\* C14: on entry the context is extracted, then attached as the current
\* context, then the route is resolved, then the attributes are built, then
\* the span is created, each once and in this order; the span is created of
\* kind Server with the whole attribute vector and put into the context cx
\* used for the downstream future; afterwards only http.status_code is added.
C14_EntryOrder ==
    \A r \in Slots :
        /\ IsPrefix(Only(slot[r].events, {"extract", "attach", "route", "attributes", "span"}),
                    EntrySteps)
        /\ slot[r].pc \in WhileAttached =>
              running = r /\ current = slot[r].parent_context[1]
        /\ slot[r].span # None =>
              LET s == slot[r].span[1]
                  built == slot[r].attributes[1]
                  later == SubSeq(s.attributes, Len(built) + 1, Len(s.attributes))
              IN  /\ SubSeq(slot[r].events, 1, 5) = EntrySteps
                  /\ s.kind = "Server"
                  /\ IsPrefix(built, s.attributes)
                  /\ \A i \in 1..Len(later) : later[i].key = "http.status_code"
                  /\ ~Settled(r) => s.attributes = built
                  /\ slot[r].cx = Some([slot[r].parent_context[1] EXCEPT !.span = r])

\* A span has just been created with the attributes of a request that has
\* a user agent and a propagated trace; nothing else has happened yet.
C14_Witness ==
    \E r \in Slots :
        /\ slot[r].pc = "built"
        /\ slot[r].events = EntrySteps
        /\ Len(WithKey(slot[r].span[1].attributes, "http.user_agent")) = 1
        /\ slot[r].cx[1].remote # None

\* C15: the middleware writes to a span only while it is open: in the log of
\* the calls made on a span, end is the last call and is made at most once,
\* on the success path and on the failure path, so every set_attribute and
\* every set_status precedes it.
C15_NoWriteAfterEnd ==
    \A r \in Slots :
        slot[r].span # None =>
            LET ops == slot[r].span[1].ops
            IN  /\ \A i \in 1..Len(ops) : ops[i] = "end" => i = Len(ops)
                /\ SettledOk(r) => ops = <<"set_attribute", "set_status", "end">>
                /\ SettledErr(r) => ops = <<"set_status", "end">>
                /\ ~Settled(r) => ops = <<>>

\* A response has settled and its span was annotated twice, then ended.
C15_Witness ==
    \E r \in Slots :
        /\ SettledOk(r)
        /\ slot[r].span[1].ops = <<"set_attribute", "set_status", "end">>
        /\ slot[r].span[1].status = "Unavailable"

\* C16: for a future dropped before its inner handler settled the
\* middleware made no call on the span (no status, no http.status_code, no
\* end) and yielded nothing, so the span is as it was created, open; a span
\* is written to and ended only by the settlement closure; and the other
\* requests in flight still end their own spans exactly once.
C16_DroppedSpanStaysOpen ==
    \A r \in Slots :
        /\ slot[r].pc = "dropped" =>
              /\ slot[r].span[1].ops = <<>>
              /\ ~slot[r].span[1].ended
              /\ slot[r].span[1].status = "Unset"
              /\ slot[r].span[1].attributes = slot[r].attributes[1]
              /\ slot[r].outcome = None /\ slot[r].result = None
        /\ (slot[r].span # None /\ slot[r].span[1].ops # <<>>) => Settled(r)
        /\ Settled(r) => slot[r].span[1].endCalls = 1

\* One future was dropped after a pending poll; another request, in flight
\* with it, settled and ended its span.
C16_Witness ==
    \E r1, r2 \in Slots :
        /\ r1 # r2
        /\ slot[r1].pc = "dropped" /\ slot[r1].pollSeen # None
        /\ ~slot[r1].span[1].ended
        /\ Settled(r2) /\ slot[r2].span[1].endCalls = 1

\* C17 as stated: net.host.port is on the span exactly when the connection
\* host is host:port, one colon with a number after it, and its value is then
\* that number; for every other host it is omitted.
C17_HostPortIffHostColonPort ==
    \A r \in Slots :
        slot[r].span # None =>
            LET host == slot[r].req[1].host
                attrs == slot[r].span[1].attributes
            IN  WithKey(attrs, "net.host.port")
                  = (IF Len(host) = 2 /\ ParseU64(host[2]) # None
                     THEN <<Attr("net.host.port", ParseU64(host[2])[1])>>
                     ELSE <<>>)

\* C18: poll_ready returns what the inner service's poll_ready returned,
\* ready, pending or the error, and the step touches nothing else: no slot
\* gains a span or changes position, and the current context, the thread and
\* the middleware's configuration stay as they were.
C18_ReadinessDelegated ==
    [][ready' # ready =>
          /\ ready'[1].outer = ready'[1].inner
          /\ UNCHANGED <<route_formatter, tracerInstalled, current, running, slot>>]_vars

\* The inner service reported an error, the middleware reported the same
\* error, and a request whose span is open was in flight at that moment.
C18_Witness ==
    /\ ready # None
    /\ ready[1].inner.kind = "Err"
    /\ ready[1].outer = ready[1].inner
    /\ \E r \in Slots : slot[r].pc = "pending" /\ slot[r].span # None

\* C19: the carrier answers every lookup with the header's value when the
\* header is present and text and with none otherwise, keys() is the set of
\* header names of the request, and the request handed to the inner service
\* has the headers the middleware received.
C19_CarrierTotalReadOnly ==
    \A r \in Slots :
        slot[r].carrier # None =>
            LET h == slot[r].req[1].headers
                c == slot[r].carrier[1]
            IN  /\ \A k \in LookupKeys :
                       /\ Len(c.get[k]) <= 1
                       /\ c.get[k] # None <=> (k \in DOMAIN h /\ h[k].text)
                       /\ c.get[k] # None => c.get[k][1] = h[k].val
                /\ c.keys = DOMAIN h
                /\ slot[r].innerReq # None => slot[r].innerReq[1].headers = h

\* A request with a traceparent that is not text and a user-agent: the lookup
\* answered none, keys() named both headers, and the inner service has been
\* invoked with the request.
C19_Witness ==
    \E r \in Slots :
        /\ slot[r].innerReq # None
        /\ "traceparent" \in DOMAIN slot[r].req[1].headers
        /\ ~slot[r].req[1].headers["traceparent"].text
        /\ slot[r].carrier[1].get["traceparent"] = None
        /\ slot[r].carrier[1].keys = {"traceparent", "user-agent"}

====
